---- MODULE Spec2Model ----
(***************************************************************************)
(* Model of PolymarketLiquidityBot (src/basicMM.py): the quote pricer      *)
(* (get_mid_price), the order lifecycle manager (place_limit_order,        *)
(* cancel_order), the strategy loop (run_strategy) and the PnL tracker     *)
(* (get_pnl).                                                              *)
(*                                                                         *)
(* Numbers.  Prices are integers in units of 0.0001 (1.0 is 10000, 0.01 is *)
(* 100), order-book prices are even so that (bid + ask) / 2 is exact.      *)
(* Sizes are integers in units of 0.01.  PnL amounts are size * price, in  *)
(* units of 0.000001.  Arithmetic is exact; the binary rounding error of   *)
(* Python floats is not modelled, except in round(x, 2), whose result on a *)
(* decimal tie depends on that error and is a choice of both neighbours.   *)
(***************************************************************************)
EXTENDS Integers, Sequences, FiniteSets, TLC

VARIABLES
    orders,         \* self.orders: the order registry (a list of order dicts)
    pnl_history,    \* self.pnl_history: the list of PnL snapshots
    client_order,   \* exchange client: the last OrderArgs handed to create_order
    next_order_id,  \* exchange: the id the next accepted order gets
    book,           \* exchange: the open orders of the instrument (get_orders)
    trades,         \* exchange: the trades of the account (get_trades)
    now,            \* wall clock, in seconds (time.time / datetime.now)
    ret,            \* the outcome of the last direct call of a bot method
    run             \* run_strategy activations: locals and position, per run

vars == <<orders, pnl_history, client_order, next_order_id, book, trades, now, ret, run>>

(***************************************************************************)
(* Program constants.                                                      *)
(***************************************************************************)
One == 10000            \* the price 1 (best ask of an empty ask side)
Zero == 0               \* the price 0 (best bid of an empty bid side)
DefaultMid == 5000      \* 0.5, the fallback mid price
PriceMin == 100         \* 0.01
PriceMax == 9900        \* 0.99
Cent == 100             \* 10^-2, the grid round(x, 2) rounds to
RefreshSleep == 30      \* time.sleep(30)
RecoverySleep == 5      \* time.sleep(5)
SecondsPerMinute == 60  \* duration_minutes * 60
MinuteScale == 100      \* duration_minutes is counted in 0.01 minute
RewardsTotal == 0       \* get_rewards_total()
NoOrderId == 0          \* a response without 'orderID' (None / falsy)
NoOrder == 0            \* active_buy_order = None

(***************************************************************************)
(* Bounds of the model.                                                    *)
(***************************************************************************)
MaxBook == 3            \* open orders in a fetched order book
MaxOrders == 2          \* orders the exchange accepts in direct calls
MaxTrades == 2          \* trades in the account's trade list
MaxSnapshots == 2       \* get_pnl calls that append a snapshot
MaxClock == 1           \* clock ticks between direct calls
MaxErrors == 2          \* unexpected errors the loop of a run catches
MaxRegistry == 2        \* orders the exchange acknowledges to two interleaved runs

Max2(a, b) == IF a >= b THEN a ELSE b
Min2(a, b) == IF a <= b THEN a ELSE b

(***************************************************************************)
(* Quote pricer: get_mid_price.                                            *)
(***************************************************************************)
BadPrice == -1          \* a price string float() cannot parse
BookSides == {"buy", "sell", "other"}
BookPrices == {0, 4000, 4500, 7000}
BookOrder == [side : BookSides, price : BookPrices \cup {BadPrice}]

\* [order for order in orders if order['side'] == s]
SideOrders(os, s) == SelectSeq(os, LAMBDA o : o.side = s)

\* float(x['price']) raises for some order of the list
ParseFails(os) == \E i \in 1..Len(os) : os[i].price = BadPrice

\* max(bids, key=lambda x: float(x['price'])): the first order of greatest price
RECURSIVE MaxByPrice(_)
MaxByPrice(os) ==
    IF Len(os) = 1 THEN os[1]
    ELSE LET best == MaxByPrice(SubSeq(os, 1, Len(os) - 1))
             last == os[Len(os)]
         IN IF last.price > best.price THEN last ELSE best

\* min(asks, key=lambda x: float(x['price'])): the first order of least price
RECURSIVE MinByPrice(_)
MinByPrice(os) ==
    IF Len(os) = 1 THEN os[1]
    ELSE LET best == MinByPrice(SubSeq(os, 1, Len(os) - 1))
             last == os[Len(os)]
         IN IF last.price < best.price THEN last ELSE best

\* A pricer that takes the first bid for the best one.
BestBidPriceFirst(bids) == IF bids = <<>> THEN Zero ELSE bids[1].price

BestBidPrice(bids) == IF bids = <<>> THEN Zero ELSE MaxByPrice(bids).price
BestAskPrice(asks) == IF asks = <<>> THEN One ELSE MinByPrice(asks).price

\* The body of the try block of get_mid_price: [exc, value].
\* fetch_ok is whether client.get_orders returned the list bk.
MidPriceBody(fetch_ok, bk) ==
    LET bids == SideOrders(bk, "buy")
        asks == SideOrders(bk, "sell")
    IN  IF ~fetch_ok THEN [exc |-> TRUE, value |-> 0]
        ELSE IF bids = <<>> /\ asks = <<>> THEN [exc |-> FALSE, value |-> DefaultMid]
        ELSE IF ParseFails(bids) \/ ParseFails(asks) THEN [exc |-> TRUE, value |-> 0]
        ELSE [exc |-> FALSE,
              value |-> (BestBidPrice(bids) + BestAskPrice(asks)) \div 2]

\* An except clause that returns no price: return 0.0.
GetMidPriceZeroOnError(fetch_ok, bk, print_ok) ==
    LET b == MidPriceBody(fetch_ok, bk)
    IN  IF b.exc THEN [raised |-> ~print_ok, value |-> 0]
        ELSE [raised |-> FALSE, value |-> b.value]

\* get_mid_price with its except clause: [raised, value].  print_ok is whether
\* the print of the except clause (line 72) completes; an error it raises leaves
\* the method.
GetMidPrice(fetch_ok, bk, print_ok) ==
    LET b == MidPriceBody(fetch_ok, bk)
    IN  IF b.exc THEN [raised |-> ~print_ok, value |-> IF print_ok THEN DefaultMid ELSE 0]
        ELSE [raised |-> FALSE, value |-> b.value]

(***************************************************************************)
(* Order lifecycle manager: place_limit_order and cancel_order.            *)
(***************************************************************************)
Sides == {"BUY", "SELL"}
Statuses == {"live", "canceled"}

\* What the three external calls of place_limit_order can do.
MinSizeError == -1                      \* the minimum-size lookup raises
MinSizes == {500}                       \* the minimum order size it can report
MinSizeOutcomes == MinSizes \cup {MinSizeError}
\* post_order: an order id; a refusal ({'success': False, 'errorMsg': ...}); an
\* answer that reports success and carries no order id ({'success': True},
\* orderID '' or None); an error raised
PostOutcomes == {"ack", "reject", "noid", "error"}

\* The outcomes of the three calls and of the two prints of a placement: print_ok
\* is whether the print of the try block (line 107 or 109) completes, handler_ok
\* whether the print of the except clause (line 113) does.  A call or print that
\* is not reached has one outcome.
PlaceOutcomes ==
    {o \in [min_out : MinSizeOutcomes, create_ok : BOOLEAN, post_out : PostOutcomes,
            print_ok : BOOLEAN, handler_ok : BOOLEAN] :
        /\ (o.min_out = MinSizeError => ~o.create_ok)
        /\ (~o.create_ok => o.post_out = "error")
        /\ (o.post_out = "error" => o.print_ok)
        /\ ((o.post_out # "error" /\ o.print_ok) => o.handler_ok)}

\* Responses of the exchange client and the failure dict of the except clauses.
Resp(id, ok, cs, err) == [orderID |-> id, success |-> ok, canceled |-> cs, errorMsg |-> err]
FailureResult == Resp(NoOrderId, FALSE, {}, TRUE)       \* {'success': False, 'errorMsg': str(e)}
NoResp == Resp(NoOrderId, FALSE, {}, FALSE)             \* no response yet

NoOrderArgs == [price |-> 0, size |-> 0, side |-> "none", token_id |-> 0, fee_rate_bps |-> 0]

\* self.get_market_min_size(market_id): the instrument's exchange-reported
\* minimum order size, or an error
GetMarketMinSize(market_id, min_out) ==
    IF min_out = MinSizeError THEN [exc |-> TRUE, value |-> 0]
    ELSE [exc |-> FALSE, value |-> min_out]

\* A clamp that forgets the lower bound.
ClampPriceNoFloor(price) == Min2(PriceMax, price)

\* price = max(0.01, min(0.99, price))
ClampPrice(price) == Max2(PriceMin, Min2(PriceMax, price))

\* size = max(float(min_size), size)
ClampSize(min_size, size) == Max2(min_size, size)

\* The order dict appended on an acknowledged submission.
OrderInfo(id, market_id, token_id, side, size, price, t) ==
    [id |-> id, market_id |-> market_id, token_id |-> token_id, side |-> side,
     size |-> size, price |-> price, time |-> t, status |-> "live"]

\* Lines 79-91 of place_limit_order, from the order last given to the client:
\* the clamps, the minimum size and create_order: [exc, price, size, client_order]
PlaceCreate(sent, side, token_id, size, price, fee_rate_bps, market_id, min_out, create_ok) ==
    LET p == ClampPrice(price)
        m == GetMarketMinSize(market_id, min_out)
        s == ClampSize(m.value, size)
        args == [price |-> p, size |-> s, side |-> side, token_id |-> token_id,
                 fee_rate_bps |-> fee_rate_bps]
    IN  IF m.exc THEN [exc |-> TRUE, price |-> p, size |-> s, client_order |-> sent]
        ELSE [exc |-> ~create_ok, price |-> p, size |-> s, client_order |-> args]

\* Line 92, resp = self.client.post_order(signed_order), for the next id the
\* exchange has to give: [exc, resp, next_order_id]
PlacePost(next_id, post_out) ==
    IF post_out = "error" THEN [exc |-> TRUE, resp |-> NoResp, next_order_id |-> next_id]
    ELSE IF post_out = "reject"
        THEN [exc |-> FALSE, resp |-> Resp(NoOrderId, FALSE, {}, TRUE), next_order_id |-> next_id]
    ELSE IF post_out = "noid"
        THEN [exc |-> FALSE, resp |-> Resp(NoOrderId, TRUE, {}, FALSE), next_order_id |-> next_id]
    ELSE [exc |-> FALSE, resp |-> Resp(next_id, TRUE, {}, FALSE), next_order_id |-> next_id + 1]

\* Lines 79-92 of place_limit_order, up to the answer of post_order, from the
\* bot state st = [orders, client_order, next_order_id, now]: [exc, resp, price,
\* size, client_order, next_order_id].  The exchange issues the order id here.
PlaceSubmit(st, side, token_id, size, price, fee_rate_bps, market_id, min_out, create_ok, post_out) ==
    LET c == PlaceCreate(st.client_order, side, token_id, size, price, fee_rate_bps,
                         market_id, min_out, create_ok)
        p == PlacePost(st.next_order_id, post_out)
    IN  IF c.exc
        THEN [exc |-> TRUE, resp |-> NoResp, price |-> c.price, size |-> c.size,
              client_order |-> c.client_order, next_order_id |-> st.next_order_id]
        ELSE [exc |-> p.exc, resp |-> p.resp, price |-> c.price, size |-> c.size,
              client_order |-> c.client_order, next_order_id |-> p.next_order_id]

\* Lines 95-106: if resp.get('orderID'): self.orders.append(order_info)
PlaceRecord(os, resp, market_id, token_id, side, size, price, t) ==
    IF resp.orderID # NoOrderId
    THEN Append(os, OrderInfo(resp.orderID, market_id, token_id, side, size, price, t))
    ELSE os

\* Lines 94-111, the rest of the try block for a submission sub = [exc, resp,
\* price, size]: the append of an acknowledged order, then the print of line 107
\* or 109, which can raise after the append: [exc, resp, orders]
PlaceTry(os, sub, market_id, token_id, side, t, print_ok) ==
    IF sub.exc THEN [exc |-> TRUE, resp |-> NoResp, orders |-> os]
    ELSE [exc |-> ~print_ok,
          resp |-> IF print_ok THEN sub.resp ELSE NoResp,
          orders |-> PlaceRecord(os, sub.resp, market_id, token_id, side,
                                 sub.size, sub.price, t)]

\* Lines 112-114, the except clause for a try block b = [exc, resp, orders]: its
\* print, which can raise, and the failure result: [raised, resp, orders]
PlaceExcept(b, handler_ok) ==
    IF ~b.exc THEN [raised |-> FALSE, resp |-> b.resp, orders |-> b.orders]
    ELSE IF handler_ok THEN [raised |-> FALSE, resp |-> FailureResult, orders |-> b.orders]
    ELSE [raised |-> TRUE, resp |-> NoResp, orders |-> b.orders]

\* Lines 94-114: what place_limit_order does once the submission has its answer
PlaceFinish(os, sub, market_id, token_id, side, t, print_ok, handler_ok) ==
    PlaceExcept(PlaceTry(os, sub, market_id, token_id, side, t, print_ok), handler_ok)

\* The body of the try block of place_limit_order: [exc, resp, orders,
\* client_order, next_order_id].  An exception leaves the state as it is at the
\* raise.
PlaceBody(st, market_id, token_id, side, size, price, fee_rate_bps, min_out, create_ok, post_out, print_ok) ==
    LET sub == PlaceSubmit(st, side, token_id, size, price, fee_rate_bps, market_id,
                           min_out, create_ok, post_out)
        b == PlaceTry(st.orders, sub, market_id, token_id, side, st.now, print_ok)
    IN  [exc |-> b.exc,
         resp |-> b.resp,
         orders |-> b.orders,
         client_order |-> sub.client_order,
         next_order_id |-> sub.next_order_id]

\* place_limit_order with its except clause: [raised, resp, orders, client_order,
\* next_order_id]
PlaceLimitOrder(st, market_id, token_id, side, size, price, fee_rate_bps, min_out, create_ok, post_out, print_ok, handler_ok) ==
    LET b == PlaceBody(st, market_id, token_id, side, size, price, fee_rate_bps,
                       min_out, create_ok, post_out, print_ok)
        e == PlaceExcept(b, handler_ok)
    IN  [raised |-> e.raised,
         resp |-> e.resp,
         orders |-> e.orders,
         client_order |-> b.client_order,
         next_order_id |-> b.next_order_id]

\* What client.cancel can do: raise, or answer with a set of canceled ids.
CancelError == [kind |-> "error", canceled |-> {}]
CancelOutcomes(ids) == {CancelError} \cup {[kind |-> "ok", canceled |-> c] : c \in SUBSET ids}

\* A cancel that drops the canceled entry from the registry.
MarkCanceledRemoves(os, order_id, canceled) ==
    SelectSeq(os, LAMBDA o : ~(o.id = order_id /\ order_id \in canceled))

\* A status update without the comparison of ids: if order_id in canceled.
MarkCanceledAnyId(os, order_id, canceled) ==
    [i \in 1..Len(os) |->
        IF order_id \in canceled THEN [os[i] EXCEPT !.status = "canceled"] ELSE os[i]]

\* A status update that takes an order the response does not list for resting:
\* 'canceled' if order_id in canceled else 'live'.
MarkCanceledRevives(os, order_id, canceled) ==
    [i \in 1..Len(os) |->
        IF os[i].id = order_id
        THEN [os[i] EXCEPT !.status = IF order_id \in canceled THEN "canceled" ELSE "live"]
        ELSE os[i]]

\* for order in self.orders: if order['id'] == order_id and order_id in canceled
MarkCanceled(os, order_id, canceled) ==
    [i \in 1..Len(os) |->
        IF os[i].id = order_id /\ order_id \in canceled
        THEN [os[i] EXCEPT !.status = "canceled"]
        ELSE os[i]]

\* The body of the try block of cancel_order: [exc, resp, orders]
CancelBody(os, order_id, cancel_out) ==
    IF cancel_out.kind = "error"
    THEN [exc |-> TRUE, resp |-> NoResp, orders |-> os]
    ELSE [exc |-> FALSE,
          resp |-> Resp(NoOrderId, TRUE, cancel_out.canceled, FALSE),
          orders |-> MarkCanceled(os, order_id, cancel_out.canceled)]

\* cancel_order with its except clause: [raised, resp, orders].  print_ok is
\* whether the print of the except clause (line 128) completes.
CancelOrder(os, order_id, cancel_out, print_ok) ==
    LET b == CancelBody(os, order_id, cancel_out)
    IN  IF ~b.exc THEN [raised |-> FALSE, resp |-> b.resp, orders |-> b.orders]
        ELSE IF print_ok THEN [raised |-> FALSE, resp |-> FailureResult, orders |-> b.orders]
        ELSE [raised |-> TRUE, resp |-> NoResp, orders |-> b.orders]

(***************************************************************************)
(* PnL tracker: get_pnl.                                                   *)
(***************************************************************************)
TradeSides == {"buy", "sell"}
TradeStatuses == {"CONFIRMED", "MATCHED"}
TradeSizes == {1000}
TradePrices == {4000, 7000}
Trade == [side : TradeSides, size : TradeSizes, price : TradePrices, status : TradeStatuses]

NoTotals == [buy_volume |-> 0, buy_cost |-> 0, sell_volume |-> 0, sell_revenue |-> 0]

\* A pass of the loop that does not look at the status of the trade.
AddTradeAnyStatus(acc, trade) ==
    IF trade.side = "buy"
    THEN [acc EXCEPT !.buy_volume = @ + trade.size,
                     !.buy_cost = @ + trade.size * trade.price]
    ELSE [acc EXCEPT !.sell_volume = @ + trade.size,
                     !.sell_revenue = @ + trade.size * (One - trade.price)]

\* One pass of the loop over the trades.
AddTrade(acc, trade) ==
    IF trade.status = "CONFIRMED"
    THEN IF trade.side = "buy"
         THEN [acc EXCEPT !.buy_volume = @ + trade.size,
                          !.buy_cost = @ + trade.size * trade.price]
         ELSE [acc EXCEPT !.sell_volume = @ + trade.size,
                          !.sell_revenue = @ + trade.size * (One - trade.price)]
    ELSE acc

\* for trade in trades: ... , from the zero totals
RECURSIVE Totals(_)
Totals(ts) ==
    IF ts = <<>> THEN NoTotals
    ELSE AddTrade(Totals(SubSeq(ts, 1, Len(ts) - 1)), ts[Len(ts)])

\* get_rewards_total()
GetRewardsTotal == RewardsTotal

\* The snapshot get_pnl appends for the trade list ts at time t.
Snapshot(ts, t) ==
    LET acc == Totals(ts)
        realized_pnl == acc.sell_revenue - acc.buy_cost
        reward_earnings == GetRewardsTotal
    IN  [timestamp |-> t, realized_pnl |-> realized_pnl, rewards |-> reward_earnings,
         total_pnl |-> realized_pnl + reward_earnings]

\* A tracker that keeps only the latest snapshot.
PnlBodyOverwrites(history, t, addr_ok, trades_ok, ts) ==
    IF ~addr_ok \/ ~trades_ok
    THEN [exc |-> TRUE, pnl_history |-> history, value |-> <<>>]
    ELSE LET h == <<Snapshot(ts, t)>>
         IN  [exc |-> FALSE, pnl_history |-> h, value |-> h]

\* The body of the try block of get_pnl: [exc, pnl_history, value].  addr_ok and
\* trades_ok are whether client.get_address and client.get_trades returned.
PnlBody(history, t, addr_ok, trades_ok, ts) ==
    IF ~addr_ok \/ ~trades_ok
    THEN [exc |-> TRUE, pnl_history |-> history, value |-> <<>>]
    ELSE LET h == Append(history, Snapshot(ts, t))
         IN  [exc |-> FALSE, pnl_history |-> h, value |-> h]

\* get_pnl with its except clause: [raised, pnl_history, value].  print_ok is
\* whether the print of the except clause (line 238) completes.
GetPnl(history, t, addr_ok, trades_ok, ts, print_ok) ==
    LET b == PnlBody(history, t, addr_ok, trades_ok, ts)
    IN  [raised |-> b.exc /\ ~print_ok,
         pnl_history |-> b.pnl_history,
         value |-> IF b.exc THEN <<>> ELSE b.value]

(***************************************************************************)
(* Strategy loop: run_strategy.                                            *)
(***************************************************************************)
Runs == {1, 2}                  \* activations of run_strategy on the one bot
RiskAmounts == {2000}           \* risk_amount arguments
MaxSpreads == {300}             \* max_spread arguments (0.03 is the default)
FeeRateBps == 0                 \* fee_rate_bps default of place_limit_order
\* duration_minutes arguments, in 0.01 minute: no time and half a minute, a run
\* of one cycle that every recovery from an unexpected error extends by another;
\* and one minute, a run of two cycles
DurationMinutes == {0, 50}
LongDurations == {0, 100}

\* Order books a cycle can fetch: empty (mid 0.5), one ask at price 0 (mid 0).
RunBooks == { <<>>, <<[side |-> "sell", price |-> 0]>> }

\* The order books and spreads of a run whose quotes reach the price bounds and
\* the rounding ties: mid prices 0.5, 0.001, 0.995, 0.425 and 0.
QuoteBooks == { <<>>,
                <<[side |-> "sell", price |-> 20]>>,
                <<[side |-> "buy", price |-> 9900]>>,
                <<[side |-> "buy", price |-> 4000], [side |-> "sell", price |-> 4500]>>,
                <<[side |-> "sell", price |-> 0]>> }
QuoteSpreads == {0, 300}

\* round(x, 2): the nearest multiple of 0.01; on a decimal tie the binary value
\* of the float decides, so either neighbour
Round2(x) ==
    LET lo == (x \div Cent) * Cent
        rem == x % Cent
    IN  IF 2 * rem < Cent THEN {lo}
        ELSE IF 2 * rem > Cent THEN {lo + Cent}
        ELSE {lo, lo + Cent}

\* A buy price without the floor of 0.01: round(mid_price - max_spread, 2).
BuyPricesNoFloor(mid_price, max_spread) == Round2(mid_price - max_spread)

\* buy_price = max(0.01, round(mid_price - max_spread, 2))
BuyPrices(mid_price, max_spread) == {Max2(PriceMin, p) : p \in Round2(mid_price - max_spread)}

\* sell_price = min(0.99, round(mid_price + max_spread, 2))
SellPrices(mid_price, max_spread) == {Min2(PriceMax, p) : p \in Round2(mid_price + max_spread)}

\* The pairs <<buy_price, sell_price>> of a cycle.  round is a function: with
\* max_spread = 0 both prices round the same number, the same way.
Quotes(mid_price, max_spread) ==
    {q \in BuyPrices(mid_price, max_spread) \X SellPrices(mid_price, max_spread) :
        max_spread = 0 =>
            \E p \in Round2(mid_price) : q = <<Max2(PriceMin, p), Min2(PriceMax, p)>>}

\* A lookup that takes the first entry of the registry, whatever its id.
FirstEntry(os, id) == IF os = <<>> THEN NoOrder ELSE 1

\* next((o for o in self.orders if o['id'] == id), None), as an index of the registry
FirstWithId(os, id) ==
    IF \E i \in 1..Len(os) : os[i].id = id
    THEN CHOOSE i \in 1..Len(os) : os[i].id = id /\ \A j \in 1..(i - 1) : os[j].id # id
    ELSE NoOrder

\* The placement a run has in flight inside place_limit_order: what the call has
\* in hand at its position in lines 79-92 (whether an external call has raised,
\* the response of the exchange, the clamped price and size).
NoPlacing == [exc |-> FALSE, resp |-> NoResp, price |-> 0, size |-> 0]

\* How late a time.sleep can return, in seconds: on time, or more than a refresh
\* interval late.
SleepLate == {0, 31}
OnTime == {0}

\* The locals of a run_strategy activation and its position; wake is the time its
\* current sleep ends at the earliest, cancel_requests the order ids it has passed
\* to cancel_order.
IdleRun == [pc |-> "idle", market_id |-> 0, token_id |-> 0, risk_amount |-> 0,
            max_spread |-> 0, duration_minutes |-> 0, start_time |-> 0, end_time |-> 0,
            size |-> 0, active_buy_order |-> NoOrder, active_sell_order |-> NoOrder,
            mid_price |-> 0, buy_price |-> 0, sell_price |-> 0,
            buy_resp |-> NoResp, sell_resp |-> NoResp, wake |-> 0, errors |-> 0,
            cancel_requests |-> {}, placing |-> NoPlacing]

BotState == [orders |-> orders, client_order |-> client_order,
             next_order_id |-> next_order_id, now |-> now]

\* run_strategy(market_id, token_id, risk_amount, max_spread, duration_minutes)
\* up to the first loop test: run r quotes instrument (r, r)
StartFrom(r, spreads, durations) ==
    /\ run[r].pc = "idle"
    /\ \E risk_amount \in RiskAmounts, max_spread \in spreads,
          duration_minutes \in durations :
         run' = [run EXCEPT ![r] =
                    [IdleRun EXCEPT !.pc = "loop",
                                    !.market_id = r, !.token_id = r,
                                    !.risk_amount = risk_amount,
                                    !.max_spread = max_spread,
                                    !.duration_minutes = duration_minutes,
                                    !.start_time = now,
                                    !.end_time = now + (duration_minutes * SecondsPerMinute) \div MinuteScale,
                                    !.size = risk_amount \div 2]]
    /\ UNCHANGED <<orders, pnl_history, client_order, next_order_id, book, trades, now, ret>>

Start(r) == StartFrom(r, MaxSpreads, DurationMinutes)

\* print(f"Starting strategy ...") (line 133) raises: run_strategy ends with the
\* exception before it has read the clock.
StartErrorFrom(r, spreads, durations) ==
    /\ run[r].pc = "idle"
    /\ \E risk_amount \in RiskAmounts, max_spread \in spreads,
          duration_minutes \in durations :
         run' = [run EXCEPT ![r] =
                    [IdleRun EXCEPT !.pc = "raised",
                                    !.market_id = r, !.token_id = r,
                                    !.risk_amount = risk_amount,
                                    !.max_spread = max_spread,
                                    !.duration_minutes = duration_minutes]]
    /\ UNCHANGED <<orders, pnl_history, client_order, next_order_id, book, trades, now, ret>>

StartError(r) == StartErrorFrom(r, MaxSpreads, DurationMinutes)

\* while time.time() < end_time
LoopCheck(r) ==
    /\ run[r].pc = "loop"
    /\ run' = [run EXCEPT ![r].pc = IF now < run[r].end_time THEN "mid" ELSE "final_buy"]
    /\ UNCHANGED <<orders, pnl_history, client_order, next_order_id, book, trades, now, ret>>

\* mid_price = self.get_mid_price(...); if mid_price: buy_price, sell_price, for
\* an order book of the set books, when get_mid_price returns (it does unless
\* the print of its except clause raises)
FetchMidFrom(r, books) ==
    /\ run[r].pc = "mid"
    /\ \E fetch_ok \in BOOLEAN, bk \in books :
         LET mid == GetMidPrice(fetch_ok, bk, TRUE).value
         IN  IF mid # 0
             THEN \E q \in Quotes(mid, run[r].max_spread) :
                     run' = [run EXCEPT ![r].mid_price = mid,
                                        ![r].buy_price = q[1],
                                        ![r].sell_price = q[2],
                                        ![r].pc = "cancel_buy"]
             ELSE run' = [run EXCEPT ![r].mid_price = mid, ![r].pc = "sleep"]
    /\ UNCHANGED <<orders, pnl_history, client_order, next_order_id, book, trades, now, ret>>

FetchMid(r) == FetchMidFrom(r, RunBooks)

\* A cancel step that keeps the reference unless the exchange confirmed the cancel.
CancelBuyKeepsUnconfirmed(r) ==
    /\ run[r].pc = "cancel_buy"
    /\ IF run[r].active_buy_order # NoOrder
       THEN /\ \E os \in {CancelOrder(orders, orders[run[r].active_buy_order].id, out, TRUE).orders :
                            out \in CancelOutcomes({orders[run[r].active_buy_order].id})} :
                 orders' = os
            /\ run' = [run EXCEPT ![r].active_buy_order =
                                        IF orders'[@].status = "canceled" THEN NoOrder ELSE @,
                                  ![r].pc = "cancel_sell",
                                  ![r].cancel_requests =
                                        @ \cup {orders[run[r].active_buy_order].id}]
       ELSE /\ orders' = orders
            /\ run' = [run EXCEPT ![r].pc = "cancel_sell"]
    /\ UNCHANGED <<pnl_history, client_order, next_order_id, book, trades, now, ret>>

\* if active_buy_order: self.cancel_order(active_buy_order['id']); active_buy_order = None
CancelBuy(r) ==
    /\ run[r].pc = "cancel_buy"
    /\ IF run[r].active_buy_order # NoOrder
       THEN /\ \E os \in {CancelOrder(orders, orders[run[r].active_buy_order].id, out, TRUE).orders :
                            out \in CancelOutcomes({orders[run[r].active_buy_order].id})} :
                 orders' = os
            /\ run' = [run EXCEPT ![r].active_buy_order = NoOrder, ![r].pc = "cancel_sell",
                                  ![r].cancel_requests =
                                        @ \cup {orders[run[r].active_buy_order].id}]
       ELSE /\ orders' = orders
            /\ run' = [run EXCEPT ![r].active_buy_order = NoOrder, ![r].pc = "cancel_sell"]
    /\ UNCHANGED <<pnl_history, client_order, next_order_id, book, trades, now, ret>>

\* if active_sell_order: self.cancel_order(active_sell_order['id']); active_sell_order = None
CancelSell(r) ==
    /\ run[r].pc = "cancel_sell"
    /\ IF run[r].active_sell_order # NoOrder
       THEN /\ \E os \in {CancelOrder(orders, orders[run[r].active_sell_order].id, out, TRUE).orders :
                            out \in CancelOutcomes({orders[run[r].active_sell_order].id})} :
                 orders' = os
            /\ run' = [run EXCEPT ![r].active_sell_order = NoOrder, ![r].pc = "place_buy",
                                  ![r].cancel_requests =
                                        @ \cup {orders[run[r].active_sell_order].id}]
       ELSE /\ orders' = orders
            /\ run' = [run EXCEPT ![r].active_sell_order = NoOrder, ![r].pc = "place_buy"]
    /\ UNCHANGED <<pnl_history, client_order, next_order_id, book, trades, now, ret>>

\* buy_resp = self.place_limit_order(market_id, token_id, BUY, size, buy_price),
\* lines 79-91 of the call (the clamps, the minimum size, create_order), for the
\* outcomes of the external calls and prints of the set outcomes
PlaceBuyFrom(r, outcomes) ==
    /\ run[r].pc = "place_buy"
    /\ \E c \in {PlaceCreate(client_order, "BUY", run[r].token_id, run[r].size,
                              run[r].buy_price, FeeRateBps, run[r].market_id,
                              o.min_out, o.create_ok) : o \in outcomes} :
             /\ client_order' = c.client_order
             /\ run' = [run EXCEPT
                    ![r].placing = [exc |-> c.exc, resp |-> NoResp,
                                    price |-> c.price, size |-> c.size],
                    ![r].pc = IF c.exc THEN "record_buy" ELSE "post_buy"]
    /\ UNCHANGED <<orders, pnl_history, next_order_id, book, trades, now, ret>>

PlaceBuy(r) == PlaceBuyFrom(r, PlaceOutcomes)

\* The same call at line 92: client.post_order answers or raises, after the
\* wait for the exchange
PostBuyFrom(r, outcomes) ==
    /\ run[r].pc = "post_buy"
    /\ \E p \in {PlacePost(next_order_id, o.post_out) : o \in {x \in outcomes : x.create_ok}} :
             /\ next_order_id' = p.next_order_id
             /\ run' = [run EXCEPT ![r].placing.exc = p.exc,
                                   ![r].placing.resp = p.resp,
                                   ![r].pc = "record_buy"]
    /\ UNCHANGED <<orders, pnl_history, client_order, book, trades, now, ret>>

PostBuy(r) == PostBuyFrom(r, PlaceOutcomes)

\* The rest of the call when it returns (lines 94-114: the append of an
\* acknowledged order, the prints, the except clause) and
\* if buy_resp.get('orderID'): active_buy_order = next(...)
RecordBuyFrom(r, outcomes) ==
    /\ run[r].pc = "record_buy"
    /\ \E fin \in {PlaceFinish(orders, run[r].placing, run[r].market_id, run[r].token_id,
                                "BUY", now, o.print_ok, o.handler_ok) : o \in outcomes} :
             /\ ~fin.raised
             /\ orders' = fin.orders
             /\ run' = [run EXCEPT
                    ![r].buy_resp = fin.resp,
                    ![r].active_buy_order =
                        IF fin.resp.orderID # NoOrderId
                        THEN FirstWithId(fin.orders, fin.resp.orderID) ELSE @,
                    ![r].placing = NoPlacing,
                    ![r].pc = "place_sell"]
    /\ UNCHANGED <<pnl_history, client_order, next_order_id, book, trades, now, ret>>

RecordBuy(r) == RecordBuyFrom(r, PlaceOutcomes)

\* sell_resp = self.place_limit_order(market_id, token_id, SELL, size, sell_price),
\* lines 79-91 of the call
PlaceSellFrom(r, outcomes) ==
    /\ run[r].pc = "place_sell"
    /\ \E c \in {PlaceCreate(client_order, "SELL", run[r].token_id, run[r].size,
                              run[r].sell_price, FeeRateBps, run[r].market_id,
                              o.min_out, o.create_ok) : o \in outcomes} :
             /\ client_order' = c.client_order
             /\ run' = [run EXCEPT
                    ![r].placing = [exc |-> c.exc, resp |-> NoResp,
                                    price |-> c.price, size |-> c.size],
                    ![r].pc = IF c.exc THEN "record_sell" ELSE "post_sell"]
    /\ UNCHANGED <<orders, pnl_history, next_order_id, book, trades, now, ret>>

PlaceSell(r) == PlaceSellFrom(r, PlaceOutcomes)

\* The same call at line 92: client.post_order answers or raises, after the
\* wait for the exchange
PostSellFrom(r, outcomes) ==
    /\ run[r].pc = "post_sell"
    /\ \E p \in {PlacePost(next_order_id, o.post_out) : o \in {x \in outcomes : x.create_ok}} :
             /\ next_order_id' = p.next_order_id
             /\ run' = [run EXCEPT ![r].placing.exc = p.exc,
                                   ![r].placing.resp = p.resp,
                                   ![r].pc = "record_sell"]
    /\ UNCHANGED <<orders, pnl_history, client_order, book, trades, now, ret>>

PostSell(r) == PostSellFrom(r, PlaceOutcomes)

\* The rest of the call when it returns (lines 94-114: the append of an
\* acknowledged order, the prints, the except clause) and
\* if sell_resp.get('orderID'): active_sell_order = next(...)
RecordSellFrom(r, outcomes) ==
    /\ run[r].pc = "record_sell"
    /\ \E fin \in {PlaceFinish(orders, run[r].placing, run[r].market_id, run[r].token_id,
                                "SELL", now, o.print_ok, o.handler_ok) : o \in outcomes} :
             /\ ~fin.raised
             /\ orders' = fin.orders
             /\ run' = [run EXCEPT
                    ![r].sell_resp = fin.resp,
                    ![r].active_sell_order =
                        IF fin.resp.orderID # NoOrderId
                        THEN FirstWithId(fin.orders, fin.resp.orderID) ELSE @,
                    ![r].placing = NoPlacing,
                    ![r].pc = "sleep"]
    /\ UNCHANGED <<pnl_history, client_order, next_order_id, book, trades, now, ret>>

RecordSell(r) == RecordSellFrom(r, PlaceOutcomes)

\* time.sleep(30): the run sleeps until the clock shows now + 30 at least
Sleep(r) ==
    /\ run[r].pc = "sleep"
    /\ run' = [run EXCEPT ![r].pc = "sleeping", ![r].wake = now + RefreshSleep]
    /\ UNCHANGED <<orders, pnl_history, client_order, next_order_id, book, trades, now, ret>>

\* The sleep of the run ends, at its time or later by one of the delays of the
\* set lates, and the loop test is next.
WakeFrom(r, lates) ==
    /\ run[r].pc = "sleeping"
    /\ \E late \in lates : now' = Max2(now, run[r].wake + late)
    /\ run' = [run EXCEPT ![r].pc = "loop", ![r].wake = 0]
    /\ UNCHANGED <<orders, pnl_history, client_order, next_order_id, book, trades, ret>>

Wake(r) == WakeFrom(r, SleepLate)

\* The states in which an error leaves the statement the run is at, inside the
\* try block of the loop: [orders, run], run being the locals of run r.
\*   mid: get_mid_price raises (the fetch fails and the print of line 72 raises);
\*     nothing has changed.
\*   sleep: the print of line 176, which ends a cycle that quoted, raises;
\*     nothing has changed.
\*   cancel_buy, cancel_sell: cancel_order raises (client.cancel fails and the
\*     print of line 128 raises); the cancel was requested, the registry is as it
\*     was and the reference is still set.
\*   record_buy, record_sell: place_limit_order raises (the print of its except
\*     clause, line 113, raises after a failed external call or after a print of
\*     the try block that raised); an acknowledged order is in the registry and
\*     the run has no reference to it.
EscapesCancel(r, i) ==
    {[orders |-> res.orders,
      run |-> [run[r] EXCEPT !.cancel_requests = @ \cup {orders[i].id}]] :
        res \in {c \in {CancelOrder(orders, orders[i].id, out, FALSE) :
                            out \in CancelOutcomes({orders[i].id})} : c.raised}}

EscapesPlace(r, side) ==
    {[orders |-> fin.orders, run |-> [run[r] EXCEPT !.placing = NoPlacing]] :
        fin \in {f \in {PlaceFinish(orders, run[r].placing, run[r].market_id,
                                      run[r].token_id, side, now, o.print_ok, o.handler_ok) :
                            o \in PlaceOutcomes} : f.raised}}

Escapes(r) ==
    IF run[r].pc = "mid"
        THEN {[orders |-> orders, run |-> run[r]] :
                res \in {m \in {GetMidPrice(FALSE, <<>>, p) : p \in BOOLEAN} : m.raised}}
    ELSE IF run[r].pc = "sleep" /\ run[r].mid_price # 0
        THEN {[orders |-> orders, run |-> run[r]]}
    ELSE IF run[r].pc = "cancel_buy" /\ run[r].active_buy_order # NoOrder
        THEN EscapesCancel(r, run[r].active_buy_order)
    ELSE IF run[r].pc = "cancel_sell" /\ run[r].active_sell_order # NoOrder
        THEN EscapesCancel(r, run[r].active_sell_order)
    ELSE IF run[r].pc = "record_buy" THEN EscapesPlace(r, "BUY")
    ELSE IF run[r].pc = "record_sell" THEN EscapesPlace(r, "SELL")
    ELSE {}

\* except Exception as e: print(...): the error is caught, the rest of the cycle
\* is skipped and the print of line 181 completes; the recovery sleep is next.
CycleError(r) ==
    /\ run[r].errors < MaxErrors
    /\ \E e \in Escapes(r) :
         /\ orders' = e.orders
         /\ run' = [run EXCEPT ![r] = [e.run EXCEPT !.pc = "recover", !.errors = @ + 1]]
    /\ UNCHANGED <<pnl_history, client_order, next_order_id, book, trades, now, ret>>

\* time.sleep(5) of the except clause (line 182): the run sleeps until the clock
\* shows now + 5 at least
Recover(r) ==
    /\ run[r].pc = "recover"
    /\ run' = [run EXCEPT ![r].pc = "sleeping", ![r].wake = now + RecoverySleep]
    /\ UNCHANGED <<orders, pnl_history, client_order, next_order_id, book, trades, now, ret>>

\* The except clause of the loop fails itself: its print (line 181) raises, and
\* run_strategy ends with that exception, without the final cancels.
HandlerError(r) ==
    /\ \E e \in Escapes(r) :
         /\ orders' = e.orders
         /\ run' = [run EXCEPT ![r] = [e.run EXCEPT !.pc = "raised", !.errors = @ + 1]]
    /\ UNCHANGED <<pnl_history, client_order, next_order_id, book, trades, now, ret>>

\* run_strategy ends by an exception after the loop, lines 185-190 being outside
\* the try block: a final cancel raises (client.cancel fails and the print of
\* line 128 raises), or the final cancels return and print("Strategy completed")
\* (line 190) raises.
FinalCancelError(r) ==
    \/ /\ run[r].pc = "final_buy" /\ run[r].active_buy_order # NoOrder
       /\ \E e \in EscapesCancel(r, run[r].active_buy_order) :
            /\ orders' = e.orders
            /\ run' = [run EXCEPT ![r] = [e.run EXCEPT !.pc = "raised"]]
       /\ UNCHANGED <<pnl_history, client_order, next_order_id, book, trades, now, ret>>
    \/ /\ run[r].pc = "final_sell" /\ run[r].active_sell_order # NoOrder
       /\ \E e \in EscapesCancel(r, run[r].active_sell_order) :
            /\ orders' = e.orders
            /\ run' = [run EXCEPT ![r] = [e.run EXCEPT !.pc = "raised"]]
       /\ UNCHANGED <<pnl_history, client_order, next_order_id, book, trades, now, ret>>
    \/ /\ run[r].pc = "final_sell"
       /\ IF run[r].active_sell_order # NoOrder
          THEN /\ \E os \in {CancelOrder(orders, orders[run[r].active_sell_order].id, out, TRUE).orders :
                               out \in CancelOutcomes({orders[run[r].active_sell_order].id})} :
                    orders' = os
               /\ run' = [run EXCEPT ![r].pc = "raised",
                                     ![r].cancel_requests =
                                           @ \cup {orders[run[r].active_sell_order].id}]
          ELSE /\ orders' = orders
               /\ run' = [run EXCEPT ![r].pc = "raised"]
       /\ UNCHANGED <<pnl_history, client_order, next_order_id, book, trades, now, ret>>

\* after the loop: if active_buy_order: self.cancel_order(active_buy_order['id'])
FinalCancelBuy(r) ==
    /\ run[r].pc = "final_buy"
    /\ IF run[r].active_buy_order # NoOrder
       THEN /\ \E os \in {CancelOrder(orders, orders[run[r].active_buy_order].id, out, TRUE).orders :
                            out \in CancelOutcomes({orders[run[r].active_buy_order].id})} :
                 orders' = os
            /\ run' = [run EXCEPT ![r].pc = "final_sell",
                                  ![r].cancel_requests =
                                        @ \cup {orders[run[r].active_buy_order].id}]
       ELSE /\ orders' = orders
            /\ run' = [run EXCEPT ![r].pc = "final_sell"]
    /\ UNCHANGED <<pnl_history, client_order, next_order_id, book, trades, now, ret>>

\* if active_sell_order: self.cancel_order(active_sell_order['id']); "Strategy completed"
FinalCancelSell(r) ==
    /\ run[r].pc = "final_sell"
    /\ IF run[r].active_sell_order # NoOrder
       THEN /\ \E os \in {CancelOrder(orders, orders[run[r].active_sell_order].id, out, TRUE).orders :
                            out \in CancelOutcomes({orders[run[r].active_sell_order].id})} :
                 orders' = os
            /\ run' = [run EXCEPT ![r].pc = "done",
                                  ![r].cancel_requests =
                                        @ \cup {orders[run[r].active_sell_order].id}]
       ELSE /\ orders' = orders
            /\ run' = [run EXCEPT ![r].pc = "done"]
    /\ UNCHANGED <<pnl_history, client_order, next_order_id, book, trades, now, ret>>

\* The outcome of a direct call: the method, whether it raised, what it returned
\* (resp, value or history), and the inputs the outcome is judged against.
NoRet == [op |-> "none", raised |-> FALSE, resp |-> NoResp, value |-> 0, history |-> <<>>,
          fetch_ok |-> FALSE, min_size |-> 0, order_id |-> NoOrderId, seen |-> <<>>]

\* The bot after construction, before any call.
Init ==
    /\ orders = <<>>
    /\ pnl_history = <<>>
    /\ client_order = NoOrderArgs
    /\ next_order_id = 1
    /\ book = <<>>
    /\ trades = <<>>
    /\ now = 0
    /\ ret = NoRet
    /\ run = [r \in Runs |-> IdleRun]

\* One run of the strategy on the bot.
Next ==
    \/ Start(1)
    \/ StartError(1)
    \/ LoopCheck(1)
    \/ FetchMid(1)
    \/ CancelBuy(1)
    \/ CancelSell(1)
    \/ PlaceBuy(1)
    \/ PostBuy(1)
    \/ RecordBuy(1)
    \/ PlaceSell(1)
    \/ PostSell(1)
    \/ RecordSell(1)
    \/ Sleep(1)
    \/ Wake(1)
    \/ CycleError(1)
    \/ Recover(1)
    \/ HandlerError(1)
    \/ FinalCancelBuy(1)
    \/ FinalCancelSell(1)
    \/ FinalCancelError(1)

Spec == Init /\ [][Next]_vars

\* A run on the order books and with the spreads of QuoteBooks and QuoteSpreads,
\* in which no cycle meets an unexpected error.
StartQuote(r) == StartFrom(r, QuoteSpreads, LongDurations)
FetchQuote(r) == FetchMidFrom(r, QuoteBooks)

NextQuote ==
    \/ StartQuote(1)
    \/ LoopCheck(1)
    \/ FetchQuote(1)
    \/ CancelBuy(1)
    \/ CancelSell(1)
    \/ PlaceBuy(1)
    \/ PostBuy(1)
    \/ RecordBuy(1)
    \/ PlaceSell(1)
    \/ PostSell(1)
    \/ RecordSell(1)
    \/ Sleep(1)
    \/ Wake(1)
    \/ FinalCancelBuy(1)
    \/ FinalCancelSell(1)

SpecQuote == Init /\ [][NextQuote]_vars

\* Two runs on one bot, one per instrument, each in a thread of its own and
\* interleaved statement by statement, a placement in three steps: the order
\* given to the client, the answer of the exchange after the wait, the append to
\* the registry.  Every step of a run is there with every outcome of its external
\* calls and prints, the unexpected errors of a cycle, of its handler, of the
\* start and of the final cancels included.  The exchange acknowledges
\* MaxRegistry orders and answers the submissions after them with a refusal, an
\* answer without order id or an error.  The runs last 0.05 minute, one cycle
\* each; the order book is empty and the sleeps return on time.
TwoRunBooks == { <<>> }
TwoDurations == {5}
TwoRunOutcomes ==
    IF next_order_id <= MaxRegistry THEN PlaceOutcomes
    ELSE {o \in PlaceOutcomes : o.post_out # "ack"}

StartTwo(r) == StartFrom(r, MaxSpreads, TwoDurations)
StartErrorTwo(r) == StartErrorFrom(r, MaxSpreads, TwoDurations)

Step(r) ==
    \/ StartTwo(r)
    \/ StartErrorTwo(r)
    \/ LoopCheck(r)
    \/ FetchMidFrom(r, TwoRunBooks)
    \/ CancelBuy(r)
    \/ CancelSell(r)
    \/ PlaceBuy(r)
    \/ PostBuyFrom(r, TwoRunOutcomes)
    \/ RecordBuy(r)
    \/ PlaceSell(r)
    \/ PostSellFrom(r, TwoRunOutcomes)
    \/ RecordSell(r)
    \/ Sleep(r)
    \/ WakeFrom(r, OnTime)
    \/ CycleError(r)
    \/ Recover(r)
    \/ HandlerError(r)
    \/ FinalCancelBuy(r)
    \/ FinalCancelSell(r)
    \/ FinalCancelError(r)

NextTwo == \E r \in Runs : Step(r)

SpecTwo == Init /\ [][NextTwo]_vars

\* The run under the conditions of termination: the clock advances and every
\* external call returns or fails, that is, the single thread of run_strategy
\* always takes its next step.
SpecLive == Init /\ [][Next]_vars /\ WF_vars(Next)

(***************************************************************************)
(* Direct calls of the bot's methods, with any arguments.                  *)
(***************************************************************************)
CallPrices == {-500, 4000, 12000}       \* price arguments: negative, valid, above 1
CallSizes == {50, 1000}                 \* size arguments: below and above the minimum
CallMarkets == {1}
CallSides == {"BUY"}

\* All lists of at most n elements of S.
RECURSIVE SeqsUpTo(_, _)
SeqsUpTo(S, n) ==
    IF n = 0 THEN {<<>>}
    ELSE LET shorter == SeqsUpTo(S, n - 1)
         IN  shorter \cup {Append(q, x) : q \in {t \in shorter : Len(t) = n - 1}, x \in S}

\* bot.get_mid_price(market_id, token_id) on the exchange's order book
GetMidPriceCall ==
    \E fetch_ok \in BOOLEAN, print_ok \in BOOLEAN :
        LET res == GetMidPrice(fetch_ok, book, print_ok)
        IN  /\ (print_ok \/ MidPriceBody(fetch_ok, book).exc)
            /\ ret' = [NoRet EXCEPT !.op = "mid", !.raised = res.raised,
                                    !.value = res.value, !.fetch_ok = fetch_ok]
            /\ UNCHANGED <<orders, pnl_history, client_order, next_order_id, book,
                           trades, now, run>>

\* bot.place_limit_order(market_id, token_id, side, size, price), called by a
\* single caller: nothing else runs between the answer of the exchange and the
\* append, and the call is one step.
PlaceCall ==
    /\ next_order_id <= MaxOrders
    /\ \E market_id \in CallMarkets, side \in CallSides, size \in CallSizes, price \in CallPrices,
          o \in PlaceOutcomes :
         LET res == PlaceLimitOrder(BotState, market_id, market_id, side, size, price,
                                    FeeRateBps, o.min_out, o.create_ok, o.post_out,
                                    o.print_ok, o.handler_ok)
         IN  /\ orders' = res.orders
             /\ client_order' = res.client_order
             /\ next_order_id' = res.next_order_id
             /\ ret' = [NoRet EXCEPT !.op = "place", !.raised = res.raised,
                                     !.resp = res.resp, !.min_size = o.min_out]
    /\ UNCHANGED <<pnl_history, book, trades, now, run>>

\* bot.cancel_order(order_id), for an id the exchange has issued or not
CancelCall ==
    \E order_id \in 1..MaxOrders :
      \E out \in CancelOutcomes({order_id, (order_id % MaxOrders) + 1}), print_ok \in BOOLEAN :
        LET res == CancelOrder(orders, order_id, out, print_ok)
        IN  /\ (print_ok \/ out.kind = "error")
            /\ orders' = res.orders
            /\ ret' = [NoRet EXCEPT !.op = "cancel", !.raised = res.raised,
                                    !.resp = res.resp, !.order_id = order_id]
            /\ UNCHANGED <<pnl_history, client_order, next_order_id, book, trades, now, run>>

\* bot.get_pnl() on the account's trades
GetPnlCall ==
    /\ Len(pnl_history) < MaxSnapshots
    /\ \E addr_ok \in BOOLEAN, trades_ok \in BOOLEAN, print_ok \in BOOLEAN :
         LET res == GetPnl(pnl_history, now, addr_ok, trades_ok, trades, print_ok)
         IN  /\ (print_ok \/ ~addr_ok \/ ~trades_ok)
             /\ pnl_history' = res.pnl_history
             /\ ret' = [NoRet EXCEPT !.op = "pnl", !.raised = res.raised,
                                     !.history = res.value,
                                     !.fetch_ok = addr_ok /\ trades_ok,
                                     !.seen = trades]
    /\ UNCHANGED <<orders, client_order, next_order_id, book, trades, now, run>>

\* The exchange confirms or reports one more trade of the account.
TradeArrives ==
    /\ Len(trades) < MaxTrades
    /\ \E t \in Trade : trades' = Append(trades, t)
    /\ UNCHANGED <<orders, pnl_history, client_order, next_order_id, book, now, ret, run>>

\* Time passes between calls.
Tick ==
    /\ now < MaxClock
    /\ now' = now + 1
    /\ UNCHANGED <<orders, pnl_history, client_order, next_order_id, book, trades, ret, run>>

\* A registry and a PnL history the bot can have when a price is asked for.
SomeOrders ==
    PlaceLimitOrder([orders |-> <<>>, client_order |-> NoOrderArgs, next_order_id |-> 1,
                     now |-> 0], 1, 1, "BUY", 1000, 4000, FeeRateBps, 500, TRUE, "ack",
                    TRUE, TRUE).orders
SomeHistory == GetPnl(<<>>, 0, TRUE, TRUE, <<>>, TRUE).pnl_history

\* The pricer on every order book of at most MaxBook orders.
InitPricer ==
    /\ orders \in {<<>>, SomeOrders}
    /\ pnl_history \in {<<>>, SomeHistory}
    /\ client_order = NoOrderArgs
    /\ next_order_id = Len(orders) + 1
    /\ book \in SeqsUpTo(BookOrder, MaxBook)
    /\ trades = <<>>
    /\ now = 0
    /\ ret = NoRet
    /\ run = [r \in Runs |-> IdleRun]

NextPricer == GetMidPriceCall

SpecPricer == InitPricer /\ [][NextPricer]_vars

\* The order lifecycle manager under direct calls.
NextOrders ==
    \/ PlaceCall
    \/ CancelCall

SpecOrders == Init /\ [][NextOrders]_vars

\* The PnL tracker while trades arrive and time passes.
NextPnl ==
    \/ GetPnlCall
    \/ TradeArrives
    \/ Tick

SpecPnl == Init /\ [][NextPnl]_vars

(***************************************************************************)
(* Properties.                                                             *)
(***************************************************************************)
Last(q) == q[Len(q)]

\* The registry entries with status LIVE for the instrument of run r on one side.
LiveOrders(r, side) ==
    {i \in 1..Len(orders) : /\ orders[i].status = "live"
                            /\ orders[i].market_id = r
                            /\ orders[i].token_id = r
                            /\ orders[i].side = side}

\* C1: in every state a run of the strategy reaches, the registry holds at most
\* one LIVE order on the BUY side and at most one on the SELL side of the
\* instrument quoted.
C1_OneLivePerSide ==
    \A r \in Runs : \A side \in Sides : Cardinality(LiveOrders(r, side)) <= 1

\* C2: when run_strategy has returned, the registry holds no LIVE order of the
\* instrument it quoted.
C2_NoLiveAfterRun ==
    \A r \in Runs : run[r].pc = "done" => \A side \in Sides : LiveOrders(r, side) = {}

\* C3: every order place_limit_order hands to the exchange client has a price
\* in [0.01, 0.99], and a size no smaller than the minimum order size the
\* instrument reported in that call.
C3_SubmittedWithinBounds ==
    /\ client_order # NoOrderArgs =>
          /\ PriceMin <= client_order.price
          /\ client_order.price <= PriceMax
    /\ (ret.op = "place" /\ ret.min_size # MinSizeError) =>
          client_order.size >= ret.min_size

\* A negative price and a size below the minimum were asked for and submitted.
C3_Witness ==
    /\ ret.op = "place"
    /\ ret.min_size \in MinSizes
    /\ client_order.price = PriceMin
    /\ client_order.size = ret.min_size

\* C4: place_limit_order never raises; acknowledged with an order id, it appends
\* exactly one order, LIVE and with that id, and returns the id; on a failure (an
\* error of an external call, or a response without an order id) it returns a
\* failure result, one that reports no success and has no order id, and leaves
\* the registry as it was.
C4_PlaceRecordsOrFails ==
    /\ [](ret.op = "place" => ~ret.raised)
    /\ [][ret'.op = "place" =>
            IF ret'.resp.orderID # NoOrderId
            THEN /\ Len(orders') = Len(orders) + 1
                 /\ SubSeq(orders', 1, Len(orders)) = orders
                 /\ Last(orders').id = ret'.resp.orderID
                 /\ Last(orders').status = "live"
            ELSE /\ orders' = orders
                 /\ ~ret'.resp.success]_vars

\* C5: cancel_order never raises; it sets the status of the entries with the
\* given id to CANCELED when the response lists the id as canceled, and
\* otherwise, and for every entry with another id, changes nothing.
C5_CancelFrame ==
    /\ [](ret.op = "cancel" => ~ret.raised)
    /\ [][ret'.op = "cancel" =>
            /\ Len(orders') = Len(orders)
            /\ \A i \in 1..Len(orders) :
                  IF orders[i].id = ret'.order_id /\ ret'.order_id \in ret'.resp.canceled
                  THEN orders'[i] = [orders[i] EXCEPT !.status = "canceled"]
                  ELSE orders'[i] = orders[i]]_vars

\* The prices of the orders of one side of a book, and their extremes.
PricesOf(bk, s) == {bk[i].price : i \in {j \in 1..Len(bk) : bk[j].side = s}}
MaxOf(S) == CHOOSE x \in S : \A y \in S : y <= x
MinOf(S) == CHOOSE x \in S : \A y \in S : x <= y
BestBid(bk) == IF PricesOf(bk, "buy") = {} THEN 0 ELSE MaxOf(PricesOf(bk, "buy"))
BestAsk(bk) == IF PricesOf(bk, "sell") = {} THEN One ELSE MinOf(PricesOf(bk, "sell"))
Parses(bk) == BadPrice \notin (PricesOf(bk, "buy") \cup PricesOf(bk, "sell"))

\* The orders of bk in the order given by the permutation f of its indices.
Permuted(bk, f) == [i \in 1..Len(bk) |-> bk[f[i]]]
Perms(n) == {f \in [1..n -> 1..n] : \A i, j \in 1..n : f[i] = f[j] => i = j}

\* C6: for an order book fetched and parsed with at least one order,
\* get_mid_price returns (best bid + best ask) / 2, the best bid being the
\* greatest bid price or 0 without bids, the best ask the least ask price or 1
\* without asks; every permutation of the book gives the same result.
C6_MidOfBestPrices ==
    (ret.op = "mid" /\ ret.fetch_ok /\ book # <<>> /\ Parses(book)) =>
        /\ 2 * ret.value = BestBid(book) + BestAsk(book)
        /\ \A f \in Perms(Len(book)) :
              GetMidPrice(TRUE, Permuted(book, f), TRUE).value = ret.value

\* Bids at 0.40 and 0.45 and no asks give 0.725.
C6_Witness ==
    /\ ret.op = "mid"
    /\ ret.fetch_ok
    /\ book = <<[side |-> "buy", price |-> 4000], [side |-> "buy", price |-> 4500]>>
    /\ ret.value = 7250

\* C7: get_mid_price returns 0.5 for a book without bids and asks and when the
\* fetch or the parse of the book fails, never raises, and leaves the registry
\* and the PnL history as they were.
C7_MidFallback ==
    /\ [](ret.op = "mid" =>
            /\ ~ret.raised
            /\ (PricesOf(book, "buy") \cup PricesOf(book, "sell") = {} => ret.value = DefaultMid)
            /\ (~ret.fetch_ok \/ ~Parses(book) => ret.value = DefaultMid))
    /\ [][ret'.op = "mid" => orders' = orders /\ pnl_history' = pnl_history]_vars

\* The trades of ts that are CONFIRMED and of the given side.
ConfirmedTrades(ts, side) ==
    SelectSeq(ts, LAMBDA t : t.status = "CONFIRMED" /\ t.side = side)

\* The sum of size*price over the trades of ts.
RECURSIVE SumCost(_)
SumCost(ts) == IF ts = <<>> THEN 0 ELSE ts[1].size * ts[1].price + SumCost(Tail(ts))

\* The sum of size*(1-price) over the trades of ts.
RECURSIVE SumRevenue(_)
SumRevenue(ts) ==
    IF ts = <<>> THEN 0 ELSE ts[1].size * (One - ts[1].price) + SumRevenue(Tail(ts))

\* C8: the snapshot get_pnl appends has realized_pnl equal to the sum of
\* size*(1-price) over the CONFIRMED sell trades minus the sum of size*price over
\* the CONFIRMED buy trades, other trades adding nothing, and total_pnl equal to
\* realized_pnl plus rewards.
C8_RealizedPnl ==
    (ret.op = "pnl" /\ ret.fetch_ok) =>
        /\ pnl_history # <<>>
        /\ Last(pnl_history).realized_pnl =
              SumRevenue(ConfirmedTrades(ret.seen, "sell")) - SumCost(ConfirmedTrades(ret.seen, "buy"))
        /\ Last(pnl_history).total_pnl =
              Last(pnl_history).realized_pnl + Last(pnl_history).rewards

\* A CONFIRMED buy of 10 at 0.40 and a CONFIRMED sell of 10 at 0.70 give -1.0.
C8_Witness ==
    /\ ret.op = "pnl"
    /\ ret.fetch_ok
    /\ ret.seen = <<[side |-> "buy", size |-> 1000, price |-> 4000, status |-> "CONFIRMED"],
                    [side |-> "sell", size |-> 1000, price |-> 7000, status |-> "CONFIRMED"]>>
    /\ Last(pnl_history).realized_pnl = -1000000

\* C9: the PnL history is only ever extended: a call that changes it appends one
\* entry to it, every call that gets the trades does so, and two successive
\* calls that see the same trades append entries of equal realized_pnl and rewards.
C9_HistoryAppendOnly ==
    /\ [][pnl_history' # pnl_history =>
            /\ Len(pnl_history') = Len(pnl_history) + 1
            /\ SubSeq(pnl_history', 1, Len(pnl_history)) = pnl_history]_vars
    /\ [][(ret' # ret /\ ret'.op = "pnl" /\ ret'.fetch_ok) =>
            Len(pnl_history') = Len(pnl_history) + 1]_vars
    /\ [][(ret' # ret /\ ret.op = "pnl" /\ ret.fetch_ok /\ ret'.op = "pnl" /\ ret'.fetch_ok
           /\ ret'.seen = ret.seen) =>
            /\ Last(pnl_history').realized_pnl = Last(pnl_history).realized_pnl
            /\ Last(pnl_history').rewards = Last(pnl_history).rewards]_vars

\* Two successive calls saw the same trades, of a realized PnL that is not zero.
C9_Witness ==
    /\ ret.op = "pnl"
    /\ ret.fetch_ok
    /\ ret.seen = trades
    /\ Len(pnl_history) = 2
    /\ pnl_history[1].realized_pnl # 0
    /\ pnl_history[2].realized_pnl = pnl_history[1].realized_pnl
    /\ pnl_history[2].timestamp # pnl_history[1].timestamp

\* C10: when get_pnl cannot get the account address or the trades, it appends
\* no snapshot, leaves the PnL history as it was, and does not raise.
C10_FailedPnlKeepsHistory ==
    /\ [](ret.op = "pnl" => ~ret.raised)
    /\ [][(ret'.op = "pnl" /\ ~ret'.fetch_ok) =>
            /\ pnl_history' = pnl_history
            /\ ret'.history = <<>>]_vars

\* The positions of a run inside the while loop of run_strategy (RUNNING).
RunningPcs == {"loop", "mid", "cancel_buy", "cancel_sell", "place_buy", "post_buy",
               "record_buy", "place_sell", "post_sell", "record_sell", "sleep", "sleeping",
               "recover"}

\* C11: no failure inside a cycle ends the run.  A run leaves the loop only at
\* the loop test, when the clock has reached start + duration; an unexpected
\* error is followed by the recovery sleep of 5 seconds, and the end of a sleep
\* by the loop test.
C11_FailuresKeepRunning ==
    /\ [][\A r \in Runs :
            (run[r].pc \in RunningPcs /\ run'[r].pc \notin RunningPcs) =>
                /\ run[r].pc = "loop"
                /\ run'[r].pc = "final_buy"
                /\ now >= run[r].start_time
                            + (run[r].duration_minutes * SecondsPerMinute) \div MinuteScale]_vars
    /\ [][\A r \in Runs :
            /\ run'[r].errors # run[r].errors => run'[r].pc = "recover"
            /\ (run[r].pc = "recover" /\ run'[r].pc # "recover") =>
                  /\ run'[r].pc = "sleeping"
                  /\ run'[r].wake = now + RecoverySleep]_vars
    /\ [][\A r \in Runs :
            (run[r].pc = "sleeping" /\ run'[r].pc # "sleeping") =>
                /\ run'[r].pc = "loop"
                /\ now' >= run[r].wake]_vars

\* C12: provided time advances and every external call returns or fails, a run
\* that was started ends: it passes from the loop to the final cancels and from
\* there to the return.  Once the time bound has elapsed it starts no new
\* cycle, and it issues a cancel for each side whose active order is still set.
C12_RunTerminates ==
    /\ \A r \in Runs : (run[r].pc \in RunningPcs) ~> (run[r].pc = "done")
    /\ [](\A r \in Runs : run[r].pc \in {"final_buy", "final_sell", "done"} =>
                            now >= run[r].end_time)
    /\ [][\A r \in Runs :
            /\ run[r].pc \notin RunningPcs \cup {"idle"} => run'[r].pc \notin RunningPcs
            /\ run'[r].pc = "final_sell" => run[r].pc \in {"final_buy", "final_sell"}
            /\ run'[r].pc = "done" => run[r].pc \in {"final_sell", "done"}
            /\ (run[r].pc = "final_buy" /\ run'[r].pc = "final_sell"
                    /\ run[r].active_buy_order # NoOrder) =>
                  orders[run[r].active_buy_order].id \in run'[r].cancel_requests
            /\ (run[r].pc = "final_sell" /\ run'[r].pc = "done"
                    /\ run[r].active_sell_order # NoOrder) =>
                  orders[run[r].active_sell_order].id \in run'[r].cancel_requests]_vars

\* The registry entries of the instrument of run r.
OrdersOf(r) == {i \in 1..Len(orders) : orders[i].market_id = r /\ orders[i].token_id = r}

\* C13: the loop submits a new order for a side only after it has issued a
\* cancel for the order it tracked on that side and cleared its reference: from
\* the placement of the buy order on no side has an active order, from the
\* placement of the sell order on the sell side has none.  The cancel step of a
\* side leaves the reference cleared whatever the outcome of the cancel, and a
\* reference is cleared nowhere else and never without the cancel issued.
C13_CancelBeforeReplace ==
    /\ [](\A r \in Runs :
            /\ run[r].pc \in {"place_buy", "post_buy", "record_buy"} =>
                  run[r].active_buy_order = NoOrder /\ run[r].active_sell_order = NoOrder
            /\ run[r].pc \in {"place_sell", "post_sell", "record_sell"} =>
                  run[r].active_sell_order = NoOrder)
    /\ [][\A r \in Runs :
            /\ (run[r].pc = "cancel_buy" /\ run'[r].pc = "cancel_sell") =>
                  run'[r].active_buy_order = NoOrder
            /\ (run[r].pc = "cancel_sell" /\ run'[r].pc = "place_buy") =>
                  run'[r].active_sell_order = NoOrder
            /\ (run[r].active_buy_order # NoOrder
                    /\ run'[r].active_buy_order # run[r].active_buy_order) =>
                  /\ run[r].pc = "cancel_buy"
                  /\ run'[r].active_buy_order = NoOrder
                  /\ orders[run[r].active_buy_order].id \in run'[r].cancel_requests
            /\ (run[r].active_sell_order # NoOrder
                    /\ run'[r].active_sell_order # run[r].active_sell_order) =>
                  /\ run[r].pc = "cancel_sell"
                  /\ run'[r].active_sell_order = NoOrder
                  /\ orders[run[r].active_sell_order].id \in run'[r].cancel_requests]_vars

\* The run is about to place a buy order; the cancel of the buy order it tracked
\* was issued and not confirmed, and the reference is cleared.
C13_Witness ==
    /\ run[1].pc = "place_buy"
    /\ run[1].active_buy_order = NoOrder
    /\ \E i \in OrdersOf(1) : /\ orders[i].side = "BUY"
                              /\ orders[i].status = "live"
                              /\ orders[i].id \in run[1].cancel_requests

\* C14: when a placement returns, the active order of the side is the entry
\* just recorded for it if the result carries an order id, and empty if it
\* does not; a side without active order stays so until a placement of that
\* side returns; a failed buy placement is followed by the sell placement,
\* which leaves the buy side's active order and the entries recorded before it
\* as they were.
C14_ActiveAfterPlacement ==
    [][\A r \in Runs :
        /\ (run[r].pc \in {"place_buy", "post_buy"} /\ run'[r].pc # run[r].pc) =>
              /\ run'[r].pc \in {"post_buy", "record_buy"}
              /\ orders' = orders
              /\ run'[r].active_buy_order = NoOrder
        /\ (run[r].pc = "record_buy" /\ run'[r].pc # "record_buy"
                /\ run'[r].errors = run[r].errors) =>
              /\ run'[r].pc = "place_sell"
              /\ run'[r].buy_resp \in {run[r].placing.resp, FailureResult}
              /\ SubSeq(orders', 1, Len(orders)) = orders
              /\ IF run'[r].buy_resp.orderID # NoOrderId
                 THEN /\ Len(orders') = Len(orders) + 1
                      /\ run'[r].active_buy_order = Len(orders')
                      /\ Last(orders').id = run'[r].buy_resp.orderID
                      /\ Last(orders').side = "BUY"
                      /\ Last(orders').market_id = run[r].market_id
                 ELSE run'[r].active_buy_order = NoOrder
        /\ (run[r].pc \in {"place_sell", "post_sell"} /\ run'[r].pc # run[r].pc) =>
              /\ run'[r].pc \in {"post_sell", "record_sell"}
              /\ orders' = orders
              /\ run'[r].active_buy_order = run[r].active_buy_order
        /\ (run[r].pc = "record_sell" /\ run'[r].pc # "record_sell"
                /\ run'[r].errors = run[r].errors) =>
              /\ run'[r].pc = "sleep"
              /\ run'[r].sell_resp \in {run[r].placing.resp, FailureResult}
              /\ run'[r].active_buy_order = run[r].active_buy_order
              /\ SubSeq(orders', 1, Len(orders)) = orders
              /\ IF run'[r].sell_resp.orderID # NoOrderId
                 THEN /\ Len(orders') = Len(orders) + 1
                      /\ run'[r].active_sell_order = Len(orders')
                      /\ Last(orders').id = run'[r].sell_resp.orderID
                      /\ Last(orders').side = "SELL"
                      /\ Last(orders').market_id = run[r].market_id
                 ELSE run'[r].active_sell_order = NoOrder
        /\ (run[r].active_buy_order = NoOrder /\ run'[r].active_buy_order # NoOrder) =>
              run[r].pc = "record_buy"
        /\ (run[r].active_sell_order = NoOrder /\ run'[r].active_sell_order # NoOrder) =>
              run[r].pc = "record_sell"]_vars

\* The end of a second cycle: the buy placement failed and the sell placement
\* succeeded, with orders of the first cycle in the registry.
C14_Witness ==
    /\ run[1].pc = "sleep"
    /\ run[1].mid_price # 0
    /\ run[1].buy_resp = FailureResult
    /\ run[1].active_buy_order = NoOrder
    /\ run[1].sell_resp.orderID # NoOrderId
    /\ run[1].active_sell_order = Len(orders)
    /\ Len(orders) >= 3
    /\ orders[run[1].active_sell_order].status = "live"

\* The status changes the order lifecycle allows, with the registry's 'live' and
\* 'canceled' for LIVE and CANCELED.
AllowedTransitions ==
    {<<"pending", "live">>, <<"live", "canceled">>}
        \cup {<<s, "failed">> : s \in {"pending", "live", "canceled", "failed"}}

\* C15: every status change of a registry entry is PENDING to LIVE, LIVE to
\* CANCELED or any status to FAILED; an entry that is CANCELED never becomes
\* LIVE again.  An entry enters the registry as LIVE.
C15_StatusTransitions ==
    [][/\ Len(orders') >= Len(orders)
       /\ \A i \in 1..Len(orders) :
            /\ orders'[i].status # orders[i].status =>
                  <<orders[i].status, orders'[i].status>> \in AllowedTransitions
            /\ orders[i].status = "canceled" => orders'[i].status # "live"
       /\ \A i \in (Len(orders) + 1)..Len(orders') : orders'[i].status = "live"]_vars

\* A cancel call for an order that is CANCELED already, which the exchange did
\* not confirm this time: the entry is still CANCELED, beside a LIVE one.
C15_Witness ==
    /\ ret.op = "cancel"
    /\ ~ret.raised
    /\ ret.resp.canceled = {}
    /\ \E i \in 1..Len(orders) : orders[i].id = ret.order_id /\ orders[i].status = "canceled"
    /\ \E i \in 1..Len(orders) : orders[i].status = "live"

\* C16: two runs for two instruments interleave on one bot.  A step of one run
\* changes no entry of the other instrument (its status least of all), issues
\* no cancel for one, tracks none as its active order, and removes or moves no
\* entry of the registry.
C16_RunsDoNotInterfere ==
    [][\A r \in Runs :
        run'[r] # run[r] =>
            /\ Len(orders') >= Len(orders)
            /\ \A i \in 1..Len(orders) :
                  /\ orders'[i].id = orders[i].id
                  /\ orders[i].market_id # r => orders'[i] = orders[i]
            /\ \A i \in (Len(orders) + 1)..Len(orders') : orders'[i].market_id = r
            /\ \A id \in run'[r].cancel_requests \ run[r].cancel_requests :
                  \E i \in OrdersOf(r) : orders[i].id = id
            /\ run'[r].active_buy_order # NoOrder =>
                  run'[r].active_buy_order \in {i \in 1..Len(orders') : orders'[i].market_id = r}
            /\ run'[r].active_sell_order # NoOrder =>
                  run'[r].active_sell_order \in {i \in 1..Len(orders') : orders'[i].market_id = r}]_vars

\* The exchange answered run 1 first (id 1) and run 2 second (id 2), and run 2
\* recorded its order first: the registry holds the order of run 2 in front,
\* LIVE and tracked by run 2, and behind it the order of run 1, which run 1 has
\* canceled in its final cancels while run 2 is still in its cycle.
C16_Witness ==
    /\ Len(orders) = 2
    /\ orders[1].id = 2 /\ orders[1].market_id = 2 /\ orders[1].status = "live"
    /\ orders[2].id = 1 /\ orders[2].market_id = 1 /\ orders[2].status = "canceled"
    /\ run[2].active_buy_order = 1
    /\ run[2].pc = "place_sell"
    /\ run[1].pc = "done"
    /\ 1 \in run[1].cancel_requests

\* The multiples of 0.01 nearest to x: one, or the two neighbours of a tie.
NearestCents(x) == {c \in {k * Cent : k \in -10..110} : 2 * (IF x >= c THEN x - c ELSE c - x) <= Cent}

\* The positions of a cycle between the computation of the quotes and the sleep.
QuotingPcs == {"cancel_buy", "cancel_sell", "place_buy", "post_buy", "record_buy",
               "place_sell", "post_sell", "record_sell"}

\* C17: in every cycle the loop requests a buy order at
\* max(0.01, round(mid - max_spread, 2)) and a sell order at
\* min(0.99, round(mid + max_spread, 2)), for the mid price of that cycle, both
\* of size risk_amount / 2; place_limit_order hands them to the exchange with
\* the price brought into [0.01, 0.99].
C17_QuotesFromMid ==
    /\ [](\A r \in Runs : run[r].pc \in QuotingPcs =>
            /\ run[r].buy_price \in
                  {Max2(PriceMin, c) : c \in NearestCents(run[r].mid_price - run[r].max_spread)}
            /\ run[r].sell_price \in
                  {Min2(PriceMax, c) : c \in NearestCents(run[r].mid_price + run[r].max_spread)}
            /\ 2 * run[r].size = run[r].risk_amount)
    /\ [][\A r \in Runs :
            /\ (\/ run'[r].mid_price # run[r].mid_price
                \/ run'[r].buy_price # run[r].buy_price
                \/ run'[r].sell_price # run[r].sell_price) => run[r].pc = "mid"
            /\ (run[r].pc \notin {"idle", "done"} /\ run'[r].pc # "done") =>
                  /\ run'[r].size = run[r].size
                  /\ run'[r].risk_amount = run[r].risk_amount
            /\ (run[r].pc = "place_buy" /\ run'[r].pc \in {"post_buy", "record_buy"}
                    /\ client_order' # client_order) =>
                  /\ client_order'.side = "BUY"
                  /\ client_order'.price = Max2(PriceMin, Min2(PriceMax, run[r].buy_price))
                  /\ 2 * client_order'.size = run[r].risk_amount
            /\ (run[r].pc = "place_sell" /\ run'[r].pc \in {"post_sell", "record_sell"}
                    /\ client_order' # client_order) =>
                  /\ client_order'.side = "SELL"
                  /\ client_order'.price = Max2(PriceMin, Min2(PriceMax, run[r].sell_price))
                  /\ 2 * client_order'.size = run[r].risk_amount]_vars

\* A second cycle on a mid price of 0.001 after a first on 0.5, with a spread of
\* 0.03: the buy order recorded first is at 0.47, the one submitted now at the
\* floor 0.01, both of size risk_amount / 2.
C17_Witness ==
    /\ run[1].pc = "place_sell"
    /\ run[1].max_spread = 300
    /\ run[1].mid_price = 10
    /\ Len(orders) = 3
    /\ orders[1].side = "BUY" /\ orders[1].price = 4700
    /\ orders[3].side = "BUY" /\ orders[3].price = PriceMin
    /\ client_order.side = "BUY" /\ client_order.price = PriceMin
    /\ 2 * orders[3].size = run[1].risk_amount

\* The positions of a run in a call of place_limit_order or cancel_order.
RegistryPcs == {"cancel_buy", "cancel_sell", "place_buy", "post_buy", "record_buy",
                "place_sell", "post_sell", "record_sell", "final_buy", "final_sell"}

\* C18: the loop changes the registry only in its calls of place_limit_order
\* and cancel_order; entries are never removed or reordered, and the id,
\* instrument, side, size, price and time of an entry never change: only its
\* status does.
C18_RegistryFrame ==
    [][/\ Len(orders') >= Len(orders)
       /\ \A i \in 1..Len(orders) :
            orders'[i] = [orders[i] EXCEPT !.status = orders'[i].status]
       /\ orders' # orders =>
            \E r \in Runs : run[r].pc \in RegistryPcs /\ run'[r].pc # run[r].pc]_vars

\* The end of a second cycle: the first entry is CANCELED, the entries recorded
\* after it are in the registry behind it.
C18_Witness ==
    /\ run[1].pc = "sleep"
    /\ Len(orders) = 4
    /\ orders[1].status = "canceled"
    /\ orders[2].status = "live"
    /\ orders[4].status = "live"
    /\ \A i \in 1..3 : orders[i].id < orders[i + 1].id

\* C19: for every mid price in [0, 1] and max_spread >= 0, the buy price
\* submitted in a cycle, after the clamp of the loop and the clamp of
\* place_limit_order, is not greater than the sell price submitted in it: for
\* the prices the two calls are about to submit, and for the two orders of a
\* cycle the exchange acknowledged.
C19_QuotesDoNotCross ==
    /\ [](\A r \in Runs : run[r].pc \in QuotingPcs =>
            Max2(PriceMin, Min2(PriceMax, run[r].buy_price))
                <= Max2(PriceMin, Min2(PriceMax, run[r].sell_price)))
    /\ [][\A r \in Runs :
            (/\ run[r].pc = "record_sell" /\ run'[r].pc = "sleep"
             /\ run[r].buy_resp.orderID # NoOrderId
             /\ run'[r].sell_resp.orderID # NoOrderId) =>
                /\ orders'[run'[r].active_buy_order].side = "BUY"
                /\ orders'[run'[r].active_sell_order].side = "SELL"
                /\ orders'[run'[r].active_buy_order].price
                      <= orders'[run'[r].active_sell_order].price]_vars

\* A cycle on a mid price of 0.001 with spread 0: the loop computed a buy price
\* of 0.01 above its sell price of 0.00, and both orders were recorded at 0.01.
C19_Witness ==
    /\ run[1].pc = "sleep"
    /\ run[1].mid_price = 10
    /\ run[1].max_spread = 0
    /\ run[1].buy_price > run[1].sell_price
    /\ run[1].active_buy_order = 1
    /\ run[1].active_sell_order = 2
    /\ orders[1].price = PriceMin
    /\ orders[2].price = PriceMin

\* Every price of the book lies strictly between 0 and 1.
PricesInside(bk) == \A i \in 1..Len(bk) : Zero < bk[i].price /\ bk[i].price < One

\* C20: for every order book whose prices lie strictly between 0 and 1, and on
\* every failed fetch, the value get_mid_price returns is not zero (and lies in
\* (0, 1)), so that the test "if mid_price" of the loop is true.
C20_MidNeverZero ==
    (ret.op = "mid" /\ ~ret.raised /\ (~ret.fetch_ok \/ PricesInside(book))) =>
        /\ ret.value # 0
        /\ Zero < ret.value /\ ret.value < One

\* A book of asks only, all inside (0, 1): the best bid counts as 0 and the mid
\* price is half the best ask.
C20_Witness ==
    /\ ret.op = "mid"
    /\ ~ret.raised
    /\ ret.fetch_ok
    /\ book # <<>>
    /\ PricesInside(book)
    /\ PricesOf(book, "buy") = {}
    /\ PricesOf(book, "sell") # {}
    /\ 2 * ret.value = BestAsk(book)

====
